---------------------------- MODULE Spec2Model ----------------------------
(***************************************************************************)
(* Model of the single-wheel rig co-simulation driver                      *)
(* (src/demos/vehicle/demo_Cosimulation/demo_VEH_Cosim_WheelRig.cpp).      *)
(*                                                                         *)
(* Every MPI rank executes main(); the model keeps one program counter per *)
(* rank, the local variables of main() per rank, the node object each rank *)
(* owns, the log of the calls made on that node, the MPI barrier counters, *)
(* the point-to-point message queues and the files on disk.                *)
(*                                                                         *)
(* Times are counted in ticks of 1/TicksPerSecond seconds so that          *)
(* sim_time, step_size and the ceilings computed from them are integers.   *)
(***************************************************************************)
EXTENDS Integers, Sequences, FiniteSets, TLC

VARIABLES
    num_procs,   \* MPI_Comm_size
    build,       \* the compile-time switches of this build
    args,        \* the command line, the same on every rank (see CommandLines)
    run,         \* index of the current run of the program (1, 2, ...)
    pc,          \* pc[r]: position of rank r in main()
    loc,         \* loc[r]: local variables of main() on rank r
    node,        \* node[r]: the node object owned by rank r
    calls,       \* calls[r]: the calls rank r has made on its node, in order
    bar,         \* bar[r]: number of MPI_Barrier calls rank r has entered
    chan,        \* chan[r]: messages sent to rank r and not yet received
    aborted,     \* MPI_Abort has been called (or the job is being torn down)
    dirs,        \* directories created on disk
    disk,        \* disk[f]: content of checkpoint file f, or NoFile
    hist         \* history: facts about past events used to state properties

vars == <<num_procs, build, args, run, pc, loc, node, calls, bar, chan,
          aborted, dirs, disk, hist>>

-----------------------------------------------------------------------------
(* Bounds of the model *)

MaxProcs == 3
MaxSimTime == 3
MaxStepSize == 2
MaxTerrainArg == 6
SettleSteps == 2
MaxRuns == 2

-----------------------------------------------------------------------------
(* Program constants *)

RIG_NODE_RANK == 0
TERRAIN_NODE_RANK == 1

\* double output_fps = 100;
output_fps == 100

\* ticks per second of simulated time: an output frame lasts 1.5 ticks, so
\* that 1 / (output_fps * step_size) is 1.5 for a step of one tick and 0.75
\* for a step of two ticks, and std::ceil has something to round up
TicksPerSecond == (3 * output_fps) \div 2

\* ChVehicleCosimRigNode::Type tire_type = ChVehicleCosimRigNode::Type::RIGID;
tire_type == "RIGID"

TerrainTypes ==
    {"RIGID", "SCM", "GRANULAR_OMP", "GRANULAR_GPU", "GRANULAR_SPH", "GRANULAR_MPI"}

CHECKPOINT_SETTLED == "checkpoint_settled.dat"
CHECKPOINT_END == "checkpoint_end.dat"
CheckpointFiles == {CHECKPOINT_SETTLED, CHECKPOINT_END}

\* the content of a file that does not exist
NoFile == 0 - 1
NULL == "NULL"

Procs == 0 .. (num_procs - 1)

\* std::ceil(a / b) for a >= 0, b > 0
Ceil(a, b) == (a + b - 1) \div b

-----------------------------------------------------------------------------
(* Values of the local variables of main() before GetProblemSpecs (lines    *)
(* 115-128; times in ticks) and of an absent node (line 186).              *)

InitLoc ==
    [terrain_type |-> "RIGID", step_size |-> 1, sim_time |-> MaxSimTime,
     use_checkpoint |-> FALSE, output |-> TRUE,
     sim_steps |-> 0, output_steps |-> 0, is |-> 0, output_frame |-> 0]

NullNode ==
    [kind |-> NULL, step_size |-> 0, out_dir |-> FALSE, input |-> "",
     settled |-> 0, state |-> 0, initialized |-> FALSE, released |-> FALSE]

InitHist ==
    [parsed       |-> {},   \* ranks on which GetProblemSpecs filled the arguments
     settle_runs  |-> 0,    \* Settle() calls in this run
     settle_state |-> NoFile,  \* terrain state at the end of the last settling
     settle_run   |-> 0,    \* run in which that settling took place
     loop_state   |-> NoFile,  \* terrain state when this run entered its step loop
     recv_state   |-> 0,    \* rig states the terrain has received in Synchronize
     recv_force   |-> 0,    \* terrain forces the rig has received in Synchronize
     sync_done    |-> [r \in 0 .. (MaxProcs - 1) |-> 0],  \* Synchronize returns
     adv_started  |-> [r \in 0 .. (MaxProcs - 1) |-> 0],  \* Advance calls
     ckpt_reads   |-> 0,    \* checkpoint files read in this run
     mkdir_failed |-> FALSE]  \* rank 0 could not create a directory in this run

StartPc == IF build.DEBUG THEN "debug_barrier" ELSE "check_procs"

\* The command line is the same on every rank and fixed when the job is
\* launched; nothing depends on it before the first rank parses it, so its
\* value is drawn at that moment (read = FALSE until then).  A command line
\* that cli.Parse rejects (valid = FALSE) carries no values.
UnreadArgs ==
    [read |-> FALSE, valid |-> FALSE, terrain_type |-> 0, sim_time |-> 0,
     step_size |-> 1, no_output |-> FALSE, use_checkpoint |-> FALSE]

RejectedArgs == [UnreadArgs EXCEPT !.read = TRUE]

CommandLines ==
    [read : {TRUE}, valid : {TRUE}, terrain_type : 0 .. MaxTerrainArg,
     sim_time : 0 .. MaxSimTime, step_size : 1 .. MaxStepSize,
     no_output : BOOLEAN, use_checkpoint : BOOLEAN] \cup {RejectedArgs}

BuildSet == [MULTICORE : BOOLEAN, GPU : BOOLEAN, FSI : BOOLEAN, DEBUG : BOOLEAN]

Init ==
    /\ num_procs \in 1 .. MaxProcs
    /\ build \in BuildSet
    /\ args = UnreadArgs
    /\ run = 1
    /\ pc = [r \in Procs |-> StartPc]
    /\ loc = [r \in Procs |-> InitLoc]
    /\ node = [r \in Procs |-> NullNode]
    /\ calls = [r \in Procs |-> <<>>]
    /\ bar = [r \in Procs |-> 0]
    /\ chan = [r \in Procs |-> <<>>]
    /\ aborted = FALSE
    /\ dirs = {}
    /\ disk = [f \in CheckpointFiles |-> NoFile]
    /\ hist = InitHist


-----------------------------------------------------------------------------
(* MPI primitives *)

\* positions in which a rank executes no further statement
Terminal == {"exited", "parse_failed", "aborted", "killed", "crashed"}

\* MPI_Barrier(MPI_COMM_WORLD), first half: rank r enters the barrier
EnterBarrier(r) == bar' = [bar EXCEPT ![r] = @ + 1]

\* MPI_Barrier, second half: rank r may leave once every rank has entered
BarrierOpen(r) == \A q \in Procs : bar[q] >= bar[r]

\* MPI_Send: the message is queued for the destination, the sender goes on
Send(to, m) == chan' = [chan EXCEPT ![to] = Append(@, m)]

\* MPI_Recv on rank r: blocks until the next message for r is there
CanRecv(r, tag) == chan[r] /= <<>> /\ Head(chan[r])[1] = tag

Recv(r) == chan' = [chan EXCEPT ![r] = Tail(@)]

\* MPI_Abort(MPI_COMM_WORLD, 1); return 1;
Abort(r) ==
    /\ aborted' = TRUE
    /\ pc' = [pc EXCEPT ![r] = "aborted"]

Goto(r, l) == pc' = [pc EXCEPT ![r] = l]

Log(r, c) == calls' = [calls EXCEPT ![r] = Append(@, c)]

-----------------------------------------------------------------------------
(* main(), start-up: lines 93-183 *)

\* #ifdef _DEBUG ... MPI_Barrier(MPI_COMM_WORLD);
DebugBarrierEnter(r) ==
    /\ pc[r] = "debug_barrier"
    /\ EnterBarrier(r)
    /\ Goto(r, "debug_wait")
    /\ UNCHANGED <<num_procs, build, args, run, loc, node, calls, chan,
                   aborted, dirs, disk, hist>>

DebugBarrierLeave(r) ==
    /\ pc[r] = "debug_wait"
    /\ BarrierOpen(r)
    /\ Goto(r, "check_procs")
    /\ UNCHANGED <<num_procs, build, args, run, loc, node, calls, bar, chan,
                   aborted, dirs, disk, hist>>

\* Variant of CheckProcs without the test of num_procs.
CheckProcs_NoTest(r) ==
    /\ pc[r] = "check_procs"
    /\ Goto(r, "parse")
    /\ UNCHANGED <<num_procs, build, args, run, loc, node, calls, bar, chan,
                   aborted, dirs, disk, hist>>

\* if (num_procs != 2) { ... MPI_Abort(MPI_COMM_WORLD, 1); return 1; }
CheckProcs(r) ==
    /\ pc[r] = "check_procs"
    /\ IF num_procs /= 2
          THEN Abort(r)
          ELSE Goto(r, "parse") /\ UNCHANGED aborted
    /\ UNCHANGED <<num_procs, build, args, run, loc, node, calls, bar, chan,
                   dirs, disk, hist>>

\* Variant of TerrainTypeOf in which a value without a case selects the
\* last enumerator.
TerrainTypeOf_LastForOther(n, default) ==
    CASE n = 0 -> "RIGID"
      [] n = 1 -> "SCM"
      [] n = 2 -> "GRANULAR_OMP"
      [] n = 3 -> "GRANULAR_GPU"
      [] n = 4 -> "GRANULAR_SPH"
      [] OTHER -> "GRANULAR_MPI"

\* switch (cli.GetAsType<int>("terrain_type")): a value without a case leaves
\* terrain_type as it was
TerrainTypeOf(n, default) ==
    CASE n = 0 -> "RIGID"
      [] n = 1 -> "SCM"
      [] n = 2 -> "GRANULAR_OMP"
      [] n = 3 -> "GRANULAR_GPU"
      [] n = 4 -> "GRANULAR_SPH"
      [] n = 5 -> "GRANULAR_MPI"
      [] OTHER -> default

\* the values GetProblemSpecs stores through its reference parameters
ParsedLoc(l, a) ==
    [l EXCEPT !.terrain_type = TerrainTypeOf(a.terrain_type, l.terrain_type),
              !.sim_time = a.sim_time,
              !.step_size = a.step_size,
              !.output = ~a.no_output,
              !.use_checkpoint = a.use_checkpoint]

\* if (!GetProblemSpecs(...)) { MPI_Finalize(); return 1; }
GetProblemSpecs(r) ==
    /\ pc[r] = "parse"
    /\ \E a \in (IF args.read THEN {args} ELSE CommandLines) :
          /\ args' = a
          /\ IF ~a.valid
                THEN Goto(r, "parse_failed") /\ UNCHANGED <<loc, hist>>
                ELSE /\ loc' = [loc EXCEPT ![r] = ParsedLoc(@, a)]
                     /\ hist' = [hist EXCEPT !.parsed = @ \cup {r}]
                     /\ Goto(r, "check_modules")
    /\ UNCHANGED <<num_procs, build, run, node, calls, bar, chan,
                   aborted, dirs, disk>>

\* Variant of ModuleMissing with the test of the multicore module only.
ModuleMissing_MulticoreOnly(t) ==
    ~build.MULTICORE /\ t \in {"RIGID", "GRANULAR_OMP"}

\* the terrain types this build has no backend for (#ifndef CHRONO_...)
ModuleMissing(t) ==
    \/ ~build.MULTICORE /\ t \in {"RIGID", "GRANULAR_OMP"}
    \/ ~build.GPU /\ t = "GRANULAR_GPU"
    \/ ~build.FSI /\ t = "GRANULAR_SPH"

\* Check if required modules are enabled
CheckModules(r) ==
    /\ pc[r] = "check_modules"
    /\ IF ModuleMissing(loc[r].terrain_type)
          THEN Abort(r)
          ELSE Goto(r, "mkdir_top") /\ UNCHANGED aborted
    /\ UNCHANGED <<num_procs, build, args, run, loc, node, calls, bar, chan,
                   dirs, disk, hist>>

\* if (rank == 0) { if (!filesystem::create_directory(out_dir_top)) {abort} ...
CreateTopDir(r) ==
    /\ pc[r] = "mkdir_top"
    /\ IF r = 0
          THEN \E ok \in BOOLEAN :
                  IF ok
                     THEN /\ dirs' = dirs \cup {"out_dir_top"}
                          /\ Goto(r, "mkdir_out")
                          /\ UNCHANGED <<aborted, hist>>
                     ELSE /\ Abort(r)
                          /\ hist' = [hist EXCEPT !.mkdir_failed = TRUE]
                          /\ UNCHANGED dirs
          ELSE Goto(r, "startup_barrier") /\ UNCHANGED <<aborted, dirs, hist>>
    /\ UNCHANGED <<num_procs, build, args, run, loc, node, calls, bar, chan,
                   disk>>

\* Variant of CreateOutDir that reports the failure and goes on to the
\* start-up barrier.
CreateOutDir_GoesOn(r) ==
    /\ pc[r] = "mkdir_out"
    /\ \E ok \in BOOLEAN :
          /\ dirs' = IF ok THEN dirs \cup {"out_dir"} ELSE dirs
          /\ hist' = [hist EXCEPT !.mkdir_failed = ~ok]
          /\ Goto(r, "startup_barrier")
    /\ UNCHANGED <<num_procs, build, args, run, loc, node, calls, bar, chan,
                   aborted, disk>>

\* ... if (!filesystem::create_directory(out_dir)) {abort} }
CreateOutDir(r) ==
    /\ pc[r] = "mkdir_out"
    /\ \E ok \in BOOLEAN :
          IF ok
             THEN /\ dirs' = dirs \cup {"out_dir"}
                  /\ Goto(r, "startup_barrier")
                  /\ UNCHANGED <<aborted, hist>>
             ELSE /\ Abort(r)
                  /\ hist' = [hist EXCEPT !.mkdir_failed = TRUE]
                  /\ UNCHANGED dirs
    /\ UNCHANGED <<num_procs, build, args, run, loc, node, calls, bar, chan,
                   disk>>

\* MPI_Barrier(MPI_COMM_WORLD);   (line 179)
StartupBarrierEnter(r) ==
    /\ pc[r] = "startup_barrier"
    /\ EnterBarrier(r)
    /\ Goto(r, "startup_wait")
    /\ UNCHANGED <<num_procs, build, args, run, loc, node, calls, chan,
                   aborted, dirs, disk, hist>>

\* Variant of SimSteps that truncates instead of rounding up.
SimSteps_Truncated(l) == l.sim_time \div l.step_size

\* int sim_steps = (int)std::ceil(sim_time / step_size);
SimSteps(l) == Ceil(l.sim_time, l.step_size)

\* Variant of OutputSteps that truncates instead of rounding up.
OutputSteps_Truncated(l) == TicksPerSecond \div (output_fps * l.step_size)

\* int output_steps = (int)std::ceil(1 / (output_fps * step_size));
OutputSteps(l) == Ceil(TicksPerSecond, output_fps * l.step_size)

\* Variant of StartupBarrierLeave that does not wait for the other ranks.
StartupBarrierLeave_NoWait(r) ==
    /\ pc[r] = "startup_wait"
    /\ loc' = [loc EXCEPT ![r].sim_steps = SimSteps(loc[r]),
                          ![r].output_steps = OutputSteps(loc[r])]
    /\ Goto(r, "create_node")
    /\ UNCHANGED <<num_procs, build, args, run, node, calls, bar, chan,
                   aborted, dirs, disk, hist>>

\* leaving the start-up barrier, then lines 182-183
StartupBarrierLeave(r) ==
    /\ pc[r] = "startup_wait"
    /\ BarrierOpen(r)
    /\ loc' = [loc EXCEPT ![r].sim_steps = SimSteps(loc[r]),
                          ![r].output_steps = OutputSteps(loc[r])]
    /\ Goto(r, "create_node")
    /\ UNCHANGED <<num_procs, build, args, run, node, calls, bar, chan,
                   aborted, dirs, disk, hist>>

-----------------------------------------------------------------------------
(* main(), node construction: lines 185-448 *)

\* switch (tire_type): the rig node class constructed on the rig rank
RigKind ==
    CASE tire_type = "RIGID" -> "RigNodeRigidTire"
      [] tire_type = "FLEXIBLE" -> "RigNodeFlexibleTire"
      [] OTHER -> NULL

\* switch (terrain_type): the terrain node class constructed on the terrain
\* rank; a case whose body is compiled out, or a type without a case,
\* constructs nothing
TerrainKind(t) ==
    CASE t = "RIGID" /\ build.MULTICORE -> "TerrainNodeRigid"
      [] t = "SCM" -> "TerrainNodeSCM"
      [] t = "GRANULAR_OMP" /\ build.MULTICORE -> "TerrainNodeGranularOMP"
      [] t = "GRANULAR_GPU" /\ build.GPU -> "TerrainNodeGranularGPU"
      [] t = "GRANULAR_SPH" /\ build.FSI -> "TerrainNodeGranularSPH"
      [] OTHER -> NULL

RigKinds == {"RigNodeRigidTire", "RigNodeFlexibleTire"}
GranularKinds == {"TerrainNodeGranularOMP", "TerrainNodeGranularGPU"}

\* Variant of InputCheckpoint in which a granular terrain is started from the
\* end-of-run checkpoint.
InputCheckpoint_EndOfRun(k, use_checkpoint) ==
    IF use_checkpoint /\ k \in GranularKinds \cup {"TerrainNodeSCM"}
       THEN CHECKPOINT_END ELSE ""

\* Variant of InputCheckpoint in which every terrain other than the granular
\* ones is started from the end-of-run checkpoint.
InputCheckpoint_AnyTerrain(k, use_checkpoint) ==
    CASE use_checkpoint /\ k \in GranularKinds -> CHECKPOINT_SETTLED
      [] use_checkpoint /\ k /= NULL /\ k \notin RigKinds -> CHECKPOINT_END
      [] OTHER -> ""

\* the checkpoint the driver asks a terrain node to start from, "" for none
\* (lines 295-297, 357-358, 407-408)
InputCheckpoint(k, use_checkpoint) ==
    CASE use_checkpoint /\ k = "TerrainNodeSCM" -> CHECKPOINT_END
      [] use_checkpoint /\ k \in GranularKinds -> CHECKPOINT_SETTLED
      [] OTHER -> ""

\* Variants of MustSettle: the settling phase is never run; the settling phase
\* is run whether or not a checkpoint is used.
MustSettle_Never(k, use_checkpoint) == FALSE

MustSettle_Always(k, use_checkpoint) == k \in GranularKinds

\* whether the driver runs the settling phase on a node of kind k
\* (the else branches at lines 359-364 and 409-414)
MustSettle(k, use_checkpoint) == k \in GranularKinds /\ ~use_checkpoint

\* the object created by new ...; SetStepSize(step_size); SetOutDir(...)
NewNode(k, l) == [NullNode EXCEPT !.kind = k, !.step_size = l.step_size, !.out_dir = TRUE]

\* the calls the driver makes while it constructs a node of kind k
ConstructionCalls(k, l) ==
    IF k = NULL THEN <<>>
    ELSE <<<<"new", k>>, <<"SetStepSize", l.step_size>>, <<"SetOutDir">>>>
         \o (IF InputCheckpoint(k, l.use_checkpoint) /= ""
                THEN <<<<"SetInputFromCheckpoint", InputCheckpoint(k, l.use_checkpoint)>>>>
                ELSE <<>>)
         \o (IF MustSettle(k, l.use_checkpoint) THEN <<<<"Settle">>>> ELSE <<>>)

\* Variant of CreateRigNode after which the driver enters the step loop
\* without calling Initialize.
CreateRigNode_NoInitialize(r) ==
    /\ pc[r] = "create_node"
    /\ r = RIG_NODE_RANK
    /\ node' = [node EXCEPT ![r] = NewNode(RigKind, loc[r])]
    /\ calls' = [calls EXCEPT ![r] = @ \o ConstructionCalls(RigKind, loc[r])]
    /\ Goto(r, "loop")
    /\ UNCHANGED <<num_procs, build, args, run, loc, bar, chan, aborted,
                   dirs, disk, hist>>

\* Variant of CreateRigNode without the test of the rank.
CreateRigNode_AnyRank(r) ==
    /\ pc[r] = "create_node"
    /\ node' = [node EXCEPT ![r] = NewNode(RigKind, loc[r])]
    /\ calls' = [calls EXCEPT ![r] = @ \o ConstructionCalls(RigKind, loc[r])]
    /\ Goto(r, "initialize")
    /\ UNCHANGED <<num_procs, build, args, run, loc, bar, chan, aborted,
                   dirs, disk, hist>>

\* if (rank == RIG_NODE_RANK) {...}  (lines 188-219)
CreateRigNode(r) ==
    /\ pc[r] = "create_node"
    /\ r = RIG_NODE_RANK
    /\ node' = [node EXCEPT ![r] = NewNode(RigKind, loc[r])]
    /\ calls' = [calls EXCEPT ![r] = @ \o ConstructionCalls(RigKind, loc[r])]
    /\ Goto(r, "initialize")
    /\ UNCHANGED <<num_procs, build, args, run, loc, bar, chan, aborted,
                   dirs, disk, hist>>

\* if (rank == TERRAIN_NODE_RANK) {...}  (lines 221-448), up to the call of
\* Settle() where there is one
CreateTerrainNode(r) ==
    /\ pc[r] = "create_node"
    /\ r = TERRAIN_NODE_RANK
    /\ LET k == TerrainKind(loc[r].terrain_type)
           settle == MustSettle(k, loc[r].use_checkpoint)
       IN  /\ node' = [node EXCEPT ![r] =
                  IF k = NULL THEN NullNode
                  ELSE [NewNode(k, loc[r]) EXCEPT
                           !.input = InputCheckpoint(k, loc[r].use_checkpoint)]]
           /\ calls' = [calls EXCEPT ![r] = @ \o ConstructionCalls(k, loc[r])]
           /\ hist' = [hist EXCEPT !.settle_runs = IF settle THEN @ + 1 ELSE @]
           /\ Goto(r, IF settle THEN "settle" ELSE "initialize")
    /\ UNCHANGED <<num_procs, build, args, run, loc, bar, chan, aborted,
                   dirs, disk>>

\* terrain->Settle(): one step of the particles settling under gravity
SettleStep(r) ==
    /\ pc[r] = "settle"
    /\ node[r].settled < SettleSteps
    /\ node' = [node EXCEPT ![r].settled = @ + 1, ![r].state = @ + 1]
    /\ UNCHANGED <<num_procs, build, args, run, pc, loc, calls, bar, chan,
                   aborted, dirs, disk, hist>>

\* Variant of Written in which every node stores its state.
Written_ByAnyNode(n, f) == [disk EXCEPT ![f] = n.state]

\* what WriteCheckpoint leaves on disk: a rig node writes nothing
Written(n, f) == IF n.kind \in RigKinds THEN disk ELSE [disk EXCEPT ![f] = n.state]

\* the file the driver writes after Settle() returns (lines 363, 413)
SettledFile == CHECKPOINT_SETTLED

\* Settle() returns; terrain->WriteCheckpoint("checkpoint_settled.dat");
WriteSettledCheckpoint(r) ==
    /\ pc[r] = "settle"
    /\ node[r].settled = SettleSteps
    /\ disk' = Written(node[r], SettledFile)
    /\ Log(r, <<"WriteCheckpoint", SettledFile>>)
    /\ hist' = [hist EXCEPT !.settle_state = node[r].state, !.settle_run = run]
    /\ Goto(r, "initialize")
    /\ UNCHANGED <<num_procs, build, args, run, loc, node, bar, chan,
                   aborted, dirs>>

-----------------------------------------------------------------------------
(* node->Initialize(): line 455.  Data exchange (lines 451-454):            *)
(*   terrain => rig (terrain height)                                       *)
(*   rig => terrain (tire mesh topology and local vertex information)      *)
(*   rig => terrain (tire contact material properties)                     *)

IsRig(r) == node[r].kind \in RigKinds

\* node->Initialize(); a call through a null pointer ends the process, and
\* the launcher tears the job down
CallInitialize(r) ==
    /\ pc[r] = "initialize"
    /\ IF node[r].kind = NULL
          THEN /\ Goto(r, "crashed")
               /\ aborted' = TRUE
               /\ UNCHANGED calls
          ELSE /\ Log(r, <<"Initialize">>)
               /\ Goto(r, IF IsRig(r) THEN "init_recv_height" ELSE "init_load")
               /\ UNCHANGED aborted
    /\ UNCHANGED <<num_procs, build, args, run, loc, node, bar, chan,
                   dirs, disk, hist>>

\* terrain Initialize: the terrain state is read from the input checkpoint
\* when one was set; a missing file is fatal
TerrainInitLoad(r) ==
    /\ pc[r] = "init_load"
    /\ IF node[r].input = ""
          THEN /\ Goto(r, "init_send_height")
               /\ UNCHANGED <<node, hist, aborted>>
          ELSE IF disk[node[r].input] = NoFile
                  THEN Abort(r) /\ UNCHANGED <<node, hist>>
                  ELSE /\ node' = [node EXCEPT ![r].state = disk[node[r].input]]
                       /\ hist' = [hist EXCEPT !.ckpt_reads = @ + 1]
                       /\ Goto(r, "init_send_height")
                       /\ UNCHANGED aborted
    /\ UNCHANGED <<num_procs, build, args, run, loc, calls, bar, chan,
                   dirs, disk>>

\* terrain => rig (terrain height)
TerrainInitSendHeight(r) ==
    /\ pc[r] = "init_send_height"
    /\ Send(RIG_NODE_RANK, <<"height", 0>>)
    /\ Goto(r, "init_recv_mesh")
    /\ UNCHANGED <<num_procs, build, args, run, loc, node, calls, bar,
                   aborted, dirs, disk, hist>>

RigInitRecvHeight(r) ==
    /\ pc[r] = "init_recv_height"
    /\ CanRecv(r, "height")
    /\ Recv(r)
    /\ Goto(r, "init_send_mesh")
    /\ UNCHANGED <<num_procs, build, args, run, loc, node, calls, bar,
                   aborted, dirs, disk, hist>>

\* rig => terrain (tire mesh topology), rig => terrain (contact material);
\* Initialize returns on the rig; int output_frame = 0; is = 0
RigInitSend(r) ==
    /\ pc[r] = "init_send_mesh"
    /\ chan' = [chan EXCEPT ![TERRAIN_NODE_RANK] =
                   @ \o <<<<"mesh", 0>>, <<"material", 0>>>>]
    /\ node' = [node EXCEPT ![r].initialized = TRUE]
    /\ loc' = [loc EXCEPT ![r].is = 0, ![r].output_frame = 0]
    /\ Goto(r, "loop")
    /\ UNCHANGED <<num_procs, build, args, run, calls, bar, aborted, dirs,
                   disk, hist>>

TerrainInitRecvMesh(r) ==
    /\ pc[r] = "init_recv_mesh"
    /\ CanRecv(r, "mesh")
    /\ Recv(r)
    /\ Goto(r, "init_recv_material")
    /\ UNCHANGED <<num_procs, build, args, run, loc, node, calls, bar,
                   aborted, dirs, disk, hist>>

\* Initialize returns on the terrain; int output_frame = 0; is = 0
TerrainInitRecvMaterial(r) ==
    /\ pc[r] = "init_recv_material"
    /\ CanRecv(r, "material")
    /\ Recv(r)
    /\ node' = [node EXCEPT ![r].initialized = TRUE]
    /\ loc' = [loc EXCEPT ![r].is = 0, ![r].output_frame = 0]
    /\ hist' = [hist EXCEPT !.loop_state = node[r].state]
    /\ Goto(r, "loop")
    /\ UNCHANGED <<num_procs, build, args, run, calls, bar, aborted, dirs,
                   disk>>

-----------------------------------------------------------------------------
(* main(), the step loop: lines 463-480 *)

\* Variant of LoopTest without the MPI_Barrier of the step.
LoopTest_NoBarrier(r) ==
    /\ pc[r] = "loop"
    /\ Goto(r, IF loc[r].is < loc[r].sim_steps THEN "step_wait" ELSE "write_checkpoint")
    /\ UNCHANGED <<num_procs, build, args, run, loc, node, calls, bar, chan,
                   aborted, dirs, disk, hist>>

\* Variant of LoopTest in which only rank 0 calls the MPI_Barrier of the step.
LoopTest_RankZeroBarrier(r) ==
    /\ pc[r] = "loop"
    /\ IF loc[r].is < loc[r].sim_steps
          THEN /\ bar' = IF r = 0 THEN [bar EXCEPT ![r] = @ + 1] ELSE bar
               /\ Goto(r, "step_wait")
          ELSE Goto(r, "write_checkpoint") /\ UNCHANGED bar
    /\ UNCHANGED <<num_procs, build, args, run, loc, node, calls, chan,
                   aborted, dirs, disk, hist>>

\* Variant of LoopTest in which the terrain rank leaves the loop one step
\* before the rig rank.
LoopTest_TerrainStopsEarly(r) ==
    /\ pc[r] = "loop"
    /\ IF loc[r].is < loc[r].sim_steps - (IF r = TERRAIN_NODE_RANK THEN 1 ELSE 0)
          THEN EnterBarrier(r) /\ Goto(r, "step_wait")
          ELSE Goto(r, "write_checkpoint") /\ UNCHANGED bar
    /\ UNCHANGED <<num_procs, build, args, run, loc, node, calls, chan,
                   aborted, dirs, disk, hist>>

\* for (...; is < sim_steps; ...) { double time = is * step_size; ...
\* MPI_Barrier(MPI_COMM_WORLD);  -- the rank enters the barrier of step is,
\* or leaves the loop
LoopTest(r) ==
    /\ pc[r] = "loop"
    /\ IF loc[r].is < loc[r].sim_steps
          THEN EnterBarrier(r) /\ Goto(r, "step_wait")
          ELSE Goto(r, "write_checkpoint") /\ UNCHANGED bar
    /\ UNCHANGED <<num_procs, build, args, run, loc, node, calls, chan,
                   aborted, dirs, disk, hist>>

\* the arguments of node->Synchronize(is, time)
SyncCall(l) == <<"Synchronize", l.is, l.is * l.step_size>>

\* Variant of StepBarrierLeave in which the loop body does not call
\* Synchronize and goes on to Advance.
StepBarrierLeave_NoSynchronize(r) ==
    /\ pc[r] = "step_wait"
    /\ BarrierOpen(r)
    /\ Goto(r, "advance")
    /\ UNCHANGED <<num_procs, build, args, run, loc, node, calls, bar, chan,
                   aborted, dirs, disk, hist>>

\* Variant of StepBarrierLeave in which the barrier gives up waiting.
StepBarrierLeave_TimesOut(r) ==
    /\ pc[r] = "step_wait"
    /\ Log(r, SyncCall(loc[r]))
    /\ Goto(r, IF IsRig(r) THEN "sync_send_state" ELSE "sync_recv_state")
    /\ UNCHANGED <<num_procs, build, args, run, loc, node, bar, chan,
                   aborted, dirs, disk, hist>>

\* the barrier opens; node->Synchronize(is, time) is called
StepBarrierLeave(r) ==
    /\ pc[r] = "step_wait"
    /\ BarrierOpen(r)
    /\ Log(r, SyncCall(loc[r]))
    /\ Goto(r, IF IsRig(r) THEN "sync_send_state" ELSE "sync_recv_state")
    /\ UNCHANGED <<num_procs, build, args, run, loc, node, bar, chan,
                   aborted, dirs, disk, hist>>

\* Synchronize on the rig: rig => terrain (state information)
RigSyncSendState(r) ==
    /\ pc[r] = "sync_send_state"
    /\ Send(TERRAIN_NODE_RANK, <<"state", loc[r].is>>)
    /\ Goto(r, "sync_recv_force")
    /\ UNCHANGED <<num_procs, build, args, run, loc, node, calls, bar,
                   aborted, dirs, disk, hist>>

\* Synchronize on the terrain: the rig state of this step is received
TerrainSyncRecvState(r) ==
    /\ pc[r] = "sync_recv_state"
    /\ CanRecv(r, "state")
    /\ Recv(r)
    /\ hist' = [hist EXCEPT !.recv_state = @ + 1]
    /\ Goto(r, "sync_send_force")
    /\ UNCHANGED <<num_procs, build, args, run, loc, node, calls, bar,
                   aborted, dirs, disk>>

\* Synchronize on the terrain: terrain => rig (force information);
\* Synchronize returns
TerrainSyncSendForce(r) ==
    /\ pc[r] = "sync_send_force"
    /\ Send(RIG_NODE_RANK, <<"force", loc[r].is>>)
    /\ hist' = [hist EXCEPT !.sync_done[r] = @ + 1]
    /\ Goto(r, "advance")
    /\ UNCHANGED <<num_procs, build, args, run, loc, node, calls, bar,
                   aborted, dirs, disk>>

\* Synchronize on the rig: the forces of this step are received;
\* Synchronize returns
RigSyncRecvForce(r) ==
    /\ pc[r] = "sync_recv_force"
    /\ CanRecv(r, "force")
    /\ Recv(r)
    /\ hist' = [hist EXCEPT !.recv_force = @ + 1, !.sync_done[r] = @ + 1]
    /\ Goto(r, "advance")
    /\ UNCHANGED <<num_procs, build, args, run, loc, node, calls, bar,
                   aborted, dirs, disk>>

\* Variant of CallAdvance in which Advance starts with a barrier.
CallAdvance_WithBarrier(r) ==
    /\ pc[r] = "advance"
    /\ \A q \in Procs : pc[q] \in {"advance", "advancing"}
    /\ Log(r, <<"Advance", loc[r].step_size>>)
    /\ hist' = [hist EXCEPT !.adv_started[r] = @ + 1]
    /\ Goto(r, "advancing")
    /\ UNCHANGED <<num_procs, build, args, run, loc, node, bar, chan,
                   aborted, dirs, disk>>

\* node->Advance(step_size) is called
CallAdvance(r) ==
    /\ pc[r] = "advance"
    /\ Log(r, <<"Advance", loc[r].step_size>>)
    /\ hist' = [hist EXCEPT !.adv_started[r] = @ + 1]
    /\ Goto(r, "advancing")
    /\ UNCHANGED <<num_procs, build, args, run, loc, node, bar, chan,
                   aborted, dirs, disk>>

\* Variant of OutputDue that counts the steps from 1.
OutputDue_FromOne(l) == l.output /\ (l.is + 1) % l.output_steps = 0

\* if (output && is % output_steps == 0)
OutputDue(l) == l.output /\ l.is % l.output_steps = 0

\* Variant of AdvanceReturn in which the output branch increments is instead
\* of output_frame.
AdvanceReturn_OutputCountsStep(r) ==
    /\ pc[r] = "advancing"
    /\ node' = [node EXCEPT ![r].state = @ + 1]
    /\ IF OutputDue(loc[r])
          THEN /\ Log(r, <<"OutputData", loc[r].output_frame>>)
               /\ loc' = [loc EXCEPT ![r].is = @ + 2]
          ELSE /\ loc' = [loc EXCEPT ![r].is = @ + 1]
               /\ UNCHANGED calls
    /\ Goto(r, "loop")
    /\ UNCHANGED <<num_procs, build, args, run, bar, chan, aborted, dirs,
                   disk, hist>>

\* Advance returns; OutputData(output_frame) when due; is++
AdvanceReturn(r) ==
    /\ pc[r] = "advancing"
    /\ node' = [node EXCEPT ![r].state = @ + 1]
    /\ IF OutputDue(loc[r])
          THEN /\ Log(r, <<"OutputData", loc[r].output_frame>>)
               /\ loc' = [loc EXCEPT ![r].output_frame = @ + 1, ![r].is = @ + 1]
          ELSE /\ loc' = [loc EXCEPT ![r].is = @ + 1]
               /\ UNCHANGED calls
    /\ Goto(r, "loop")
    /\ UNCHANGED <<num_procs, build, args, run, bar, chan, aborted, dirs,
                   disk, hist>>

-----------------------------------------------------------------------------
(* main(), shutdown: lines 482-487 *)

\* the file the driver writes when the loop is left (line 482)
EndFile == CHECKPOINT_END

\* Variant of WriteEndCheckpoint that writes the final checkpoint on the
\* terrain rank only.
WriteEndCheckpoint_TerrainOnly(r) ==
    /\ pc[r] = "write_checkpoint"
    /\ IF r = TERRAIN_NODE_RANK
          THEN disk' = Written(node[r], EndFile) /\ Log(r, <<"WriteCheckpoint", EndFile>>)
          ELSE UNCHANGED <<disk, calls>>
    /\ Goto(r, "delete")
    /\ UNCHANGED <<num_procs, build, args, run, loc, node, bar, chan,
                   aborted, dirs, hist>>

\* Variant of WriteEndCheckpoint that writes the final checkpoint once every
\* rank has left the step loop.
WriteEndCheckpoint_AfterPeer(r) ==
    /\ pc[r] = "write_checkpoint"
    /\ \A q \in Procs : pc[q] \in {"write_checkpoint", "delete", "exited"}
    /\ disk' = Written(node[r], EndFile)
    /\ Log(r, <<"WriteCheckpoint", EndFile>>)
    /\ Goto(r, "delete")
    /\ UNCHANGED <<num_procs, build, args, run, loc, node, bar, chan,
                   aborted, dirs, hist>>

\* node->WriteCheckpoint("checkpoint_end.dat");
WriteEndCheckpoint(r) ==
    /\ pc[r] = "write_checkpoint"
    /\ disk' = Written(node[r], EndFile)
    /\ Log(r, <<"WriteCheckpoint", EndFile>>)
    /\ Goto(r, "delete")
    /\ UNCHANGED <<num_procs, build, args, run, loc, node, bar, chan,
                   aborted, dirs, hist>>

\* delete node; MPI_Finalize(); return 0;
DeleteNode(r) ==
    /\ pc[r] = "delete"
    /\ node' = [node EXCEPT ![r].released = TRUE]
    /\ Log(r, <<"delete">>)
    /\ Goto(r, "exited")
    /\ UNCHANGED <<num_procs, build, args, run, loc, bar, chan, aborted,
                   dirs, disk, hist>>

-----------------------------------------------------------------------------
(* The environment *)

\* after MPI_Abort (or the crash of a rank) the launcher terminates the
\* ranks that are still running, each at an arbitrary later moment
Kill(r) ==
    /\ aborted
    /\ pc[r] \notin Terminal
    /\ Goto(r, "killed")
    /\ UNCHANGED <<num_procs, build, args, run, loc, node, calls, bar, chan,
                   aborted, dirs, disk, hist>>

\* a run that ended normally is followed by a run of the same command with
\* --use_checkpoint; the files on disk stay
Rerun ==
    /\ run < MaxRuns
    /\ \A r \in Procs : pc[r] = "exited"
    /\ \A r \in Procs : node[r].released
    /\ run' = run + 1
    /\ args' = [args EXCEPT !.use_checkpoint = TRUE]
    /\ pc' = [r \in Procs |-> StartPc]
    /\ loc' = [r \in Procs |-> InitLoc]
    /\ node' = [r \in Procs |-> NullNode]
    /\ calls' = [r \in Procs |-> <<>>]
    /\ bar' = [r \in Procs |-> 0]
    /\ chan' = [r \in Procs |-> <<>>]
    /\ hist' = [InitHist EXCEPT !.settle_state = hist.settle_state,
                                !.settle_run = hist.settle_run]
    /\ UNCHANGED <<num_procs, build, aborted, dirs, disk>>

-----------------------------------------------------------------------------

Next ==
    \/ \E r \in Procs : DebugBarrierEnter(r)
    \/ \E r \in Procs : DebugBarrierLeave(r)
    \/ \E r \in Procs : CheckProcs(r)
    \/ \E r \in Procs : GetProblemSpecs(r)
    \/ \E r \in Procs : CheckModules(r)
    \/ \E r \in Procs : CreateTopDir(r)
    \/ \E r \in Procs : CreateOutDir(r)
    \/ \E r \in Procs : StartupBarrierEnter(r)
    \/ \E r \in Procs : StartupBarrierLeave(r)
    \/ \E r \in Procs : CreateRigNode(r)
    \/ \E r \in Procs : CreateTerrainNode(r)
    \/ \E r \in Procs : SettleStep(r)
    \/ \E r \in Procs : WriteSettledCheckpoint(r)
    \/ \E r \in Procs : CallInitialize(r)
    \/ \E r \in Procs : TerrainInitLoad(r)
    \/ \E r \in Procs : TerrainInitSendHeight(r)
    \/ \E r \in Procs : RigInitRecvHeight(r)
    \/ \E r \in Procs : RigInitSend(r)
    \/ \E r \in Procs : TerrainInitRecvMesh(r)
    \/ \E r \in Procs : TerrainInitRecvMaterial(r)
    \/ \E r \in Procs : LoopTest(r)
    \/ \E r \in Procs : StepBarrierLeave(r)
    \/ \E r \in Procs : RigSyncSendState(r)
    \/ \E r \in Procs : TerrainSyncRecvState(r)
    \/ \E r \in Procs : TerrainSyncSendForce(r)
    \/ \E r \in Procs : RigSyncRecvForce(r)
    \/ \E r \in Procs : CallAdvance(r)
    \/ \E r \in Procs : AdvanceReturn(r)
    \/ \E r \in Procs : WriteEndCheckpoint(r)
    \/ \E r \in Procs : DeleteNode(r)
    \/ \E r \in Procs : Kill(r)
    \/ Rerun

Spec == Init /\ [][Next]_vars

TypeOK ==
    /\ num_procs \in 1 .. MaxProcs
    /\ run \in 1 .. MaxRuns
    /\ aborted \in BOOLEAN
    /\ \A r \in Procs : loc[r].terrain_type \in TerrainTypes

-----------------------------------------------------------------------------
(* Positions and call logs *)

InSynchronize(r) ==
    pc[r] \in {"sync_send_state", "sync_recv_force", "sync_recv_state", "sync_send_force"}

InAdvance(r) == pc[r] = "advancing"

\* the rank has entered the barrier of its step loc[r].is
PastStepBarrierEntry(r) ==
    pc[r] = "step_wait" \/ InSynchronize(r) \/ pc[r] \in {"advance", "advancing"}

\* the rank has left the step loop in the normal way
LeftLoop(r) == pc[r] \in {"write_checkpoint", "delete", "exited"}

Op(c) == c[1]

\* the positions in s of the calls of operation op
Places(s, op) == {i \in 1 .. Len(s) : Op(s[i]) = op}

Count(s, op) == Cardinality(Places(s, op))

\* the positions in s of the calls WriteCheckpoint(f)
WritePlaces(s, f) == {i \in Places(s, "WriteCheckpoint") : s[i][2] = f}

IsStepCall(c) == Op(c) \in {"Synchronize", "Advance"}

-----------------------------------------------------------------------------
(* Properties *)

\* C1 (as stated): for every step n, Synchronize(n) on the rig node has
\* returned before Advance(n) is called on either node.  The k-th Advance call
\* of a rank is the one of step k-1, so the Advance calls started on any rank
\* never outnumber the Synchronize calls that have returned on the rig.
C1_AdvanceAfterRigSynchronize ==
    num_procs = 2 =>
        \A r \in Procs : hist.adv_started[r] <= hist.sync_done[RIG_NODE_RANK]

\* C1 (amended): Synchronize(n) on the rig node has returned before Advance(n)
\* is called on the rig node, and Synchronize(n) on the terrain node has
\* returned, after the terrain received the rig state of step n, before
\* Advance(n) is called on the terrain node.
C1_AdvanceAfterOwnSynchronize ==
    num_procs = 2 =>
        /\ \A r \in Procs : hist.adv_started[r] <= hist.sync_done[r]
        /\ hist.adv_started[TERRAIN_NODE_RANK] <= hist.recv_state

\* the terrain is in Advance of its second step while the rig has not yet
\* returned from Synchronize of that step
C1_Witness ==
    /\ num_procs = 2
    /\ pc[TERRAIN_NODE_RANK] = "advancing"
    /\ loc[TERRAIN_NODE_RANK].is = 1
    /\ pc[RIG_NODE_RANK] = "sync_recv_force"
    /\ loc[RIG_NODE_RANK].is = 1

\* the rank has arrived at the barrier of step n
ArrivedAtStep(q, n) ==
    \/ loc[q].is > n
    \/ loc[q].is = n /\ (PastStepBarrierEntry(q) \/ LeftLoop(q))

\* C2: no rank is inside Synchronize(n) unless both ranks have arrived at the
\* barrier of step n; the loop indices of the two ranks differ by at most 1;
\* the two ranks are never inside Synchronize for different step indices.
C2_StepAgreement ==
    num_procs = 2 =>
        /\ \A r, q \in Procs :
              /\ loc[r].is - loc[q].is <= 1
              /\ InSynchronize(r) => ArrivedAtStep(q, loc[r].is)
              /\ InSynchronize(r) /\ InSynchronize(q) => loc[r].is = loc[q].is

\* one rank waits at the barrier of the third step while the other is still
\* in Advance of the second
C2_Witness ==
    /\ num_procs = 2
    /\ \E r, q \in Procs :
          /\ pc[r] = "step_wait" /\ loc[r].is = 2
          /\ pc[q] = "advancing" /\ loc[q].is = 1

\* C3: when the number of processes is not 2, a rank does nothing but abort
\* (or be terminated by the abort of another rank): the command line is not
\* read, no directory is created, no node is constructed and no call is made
\* on a node.
C3_WrongProcessCount ==
    num_procs /= 2 =>
        /\ ~args.read
        /\ hist.parsed = {}
        /\ dirs = {}
        /\ \A f \in CheckpointFiles : disk[f] = NoFile
        /\ \A r \in Procs :
              /\ pc[r] \in {"debug_barrier", "debug_wait", "check_procs", "aborted", "killed"}
              /\ node[r] = NullNode
              /\ calls[r] = <<>>
              /\ loc[r] = InitLoc

\* three ranks were started and each of them has called MPI_Abort
C3_Witness ==
    /\ num_procs = 3
    /\ \A r \in Procs : pc[r] = "aborted"

\* C4: the terrain sends the forces of step n only after it has received the
\* rig state of step n, the message the terrain (the rig) waits for in
\* Synchronize(n) is the state (the force) of step n, and the rig calls
\* Advance(n) only after both transfers of step n are complete.
C4_HalfDuplexExchange ==
    num_procs = 2 =>
        /\ hist.sync_done[TERRAIN_NODE_RANK] <= hist.recv_state
        /\ hist.recv_force <= hist.sync_done[TERRAIN_NODE_RANK]
        /\ \A i \in 1 .. Len(chan[RIG_NODE_RANK]) :
              chan[RIG_NODE_RANK][i][1] = "force"
                  => chan[RIG_NODE_RANK][i][2] < hist.recv_state
        /\ pc[TERRAIN_NODE_RANK] = "sync_recv_state" /\ chan[TERRAIN_NODE_RANK] /= <<>>
              => Head(chan[TERRAIN_NODE_RANK]) = <<"state", loc[TERRAIN_NODE_RANK].is>>
        /\ pc[RIG_NODE_RANK] = "sync_recv_force" /\ chan[RIG_NODE_RANK] /= <<>>
              => Head(chan[RIG_NODE_RANK]) = <<"force", loc[RIG_NODE_RANK].is>>
        /\ hist.adv_started[RIG_NODE_RANK] <= hist.recv_force
        /\ hist.adv_started[RIG_NODE_RANK] <= hist.recv_state

\* the rig is in Advance of its second step, both transfers of that step done
C4_Witness ==
    /\ num_procs = 2
    /\ pc[RIG_NODE_RANK] = "advancing"
    /\ loc[RIG_NODE_RANK].is = 1
    /\ hist.recv_state = 2
    /\ hist.recv_force = 2

\* the state of the coordinator of rank r
CoordState(r) ==
    CASE pc[r] \in {"delete", "exited"} -> "DONE"
      [] pc[r] \in {"loop", "step_wait", "advance", "advancing", "write_checkpoint"}
            \/ InSynchronize(r) -> "RUNNING"
      [] pc[r] \in {"initialize", "init_load", "init_send_height", "init_recv_mesh",
                    "init_recv_material", "init_recv_height", "init_send_mesh"}
            /\ node[r].kind /= NULL -> "READY"
      [] pc[r] \in {"parse_failed", "aborted", "killed", "crashed"} -> "STOPPED"
      [] OTHER -> "UNINITIALIZED"

CoordRank(r) ==
    CASE CoordState(r) = "UNINITIALIZED" -> 0
      [] CoordState(r) = "READY" -> 1
      [] CoordState(r) = "RUNNING" -> 2
      [] CoordState(r) = "DONE" -> 3
      [] OTHER -> 4

\* the calls rank r makes on its node in this step
NewCalls(r) == {i \in 1 .. Len(calls'[r]) : i > Len(calls[r])}

\* C5: within a run the coordinator of every rank goes through UNINITIALIZED,
\* READY, RUNNING, DONE in this order, one state at a time (or stops on an
\* abort); Synchronize, Advance and OutputData are called only in RUNNING,
\* after Initialize has returned and before the final WriteCheckpoint;
\* Initialize is called at most once, and exactly once before RUNNING.
C5_Lifecycle ==
    [][run' = run =>
          \A r \in Procs :
             /\ \/ CoordState(r)' = "STOPPED"
                \/ CoordRank(r)' = CoordRank(r)
                \/ CoordRank(r)' = CoordRank(r) + 1
             /\ \A i \in NewCalls(r) :
                   Op(calls'[r][i]) \in {"Synchronize", "Advance", "OutputData"}
                      => /\ CoordState(r) = "RUNNING"
                         /\ node[r].initialized
                         /\ WritePlaces(calls[r], CHECKPOINT_END) = {}
             /\ Count(calls'[r], "Initialize") <= 1
             /\ CoordState(r)' \in {"RUNNING", "DONE"}
                   => /\ Count(calls'[r], "Initialize") = 1
                      /\ node'[r].initialized
             /\ CoordState(r)' = "READY" => node'[r].kind /= NULL
    ]_vars

\* both ranks have gone through the whole lifecycle of a run of two steps
C5_Witness ==
    /\ num_procs = 2
    /\ \A r \in Procs :
          /\ CoordState(r) = "DONE"
          /\ pc[r] = "exited"
          /\ Count(calls[r], "Synchronize") = 2

\* the Synchronize and Advance calls rank r has made, in order
StepCalls(r) == SelectSeq(calls[r], IsStepCall)

\* the number of steps that covers sim_time: the least n with
\* n * step_size >= sim_time
StepsNeeded ==
    CHOOSE n \in 0 .. MaxSimTime :
        /\ n * args.step_size >= args.sim_time
        /\ n = 0 \/ (n - 1) * args.step_size < args.sim_time

\* C6: the Synchronize and Advance calls on a node alternate, starting with
\* Synchronize; the k-th Synchronize is Synchronize(k-1, (k-1) * step_size)
\* and every Advance is Advance(step_size); a rank that has left the loop has
\* made exactly ceil(sim_time / step_size) calls of each.
C6_StepCalls ==
    \A r \in Procs :
        LET s == StepCalls(r) IN
        /\ \A i \in 1 .. Len(s) :
              IF i % 2 = 1
                 THEN /\ Op(s[i]) = "Synchronize"
                      /\ s[i][2] = (i - 1) \div 2
                      /\ s[i][3] = ((i - 1) \div 2) * args.step_size
                 ELSE /\ Op(s[i]) = "Advance"
                      /\ s[i][2] = args.step_size
        /\ args.read /\ args.valid => Len(s) <= 2 * StepsNeeded
        /\ LeftLoop(r) => Len(s) = 2 * StepsNeeded
        /\ LeftLoop(r) => loc[r].sim_steps = StepsNeeded

\* a run of 3 ticks in steps of 2 ticks has made two steps on some rank
C6_Witness ==
    \E r \in Procs :
        /\ LeftLoop(r)
        /\ args.sim_time = 3
        /\ args.step_size = 2
        /\ Len(StepCalls(r)) = 4

\* C7: a rank that leaves the step loop calls
\* WriteCheckpoint("checkpoint_end.dat") exactly once, after every Initialize,
\* Synchronize, Advance and OutputData call, then releases its node, and the
\* release is the last thing done with the node.
C7_EndCheckpoint ==
    \A r \in Procs :
        LET s == calls[r]
            w == WritePlaces(s, CHECKPOINT_END)
            d == Places(s, "delete")
        IN  /\ Cardinality(w) <= 1
            /\ pc[r] \in {"delete", "exited"} => Cardinality(w) = 1
            /\ w /= {} => LeftLoop(r)
            /\ \A i \in w : \A j \in 1 .. Len(s) :
                  Op(s[j]) \in {"Initialize", "Synchronize", "Advance", "OutputData"}
                      => j < i
            /\ \A i \in d : i = Len(s) /\ \E j \in w : j < i
            /\ node[r].released <=> d /= {}
            /\ pc[r] = "exited" <=> node[r].released

\* both ranks have ended a run of zero steps
C7_Witness ==
    /\ num_procs = 2
    /\ \A r \in Procs :
          /\ pc[r] = "exited"
          /\ loc[r].sim_steps = 0
          /\ WritePlaces(calls[r], CHECKPOINT_END) /= {}

\* C8: for a granular (OMP, GPU) terrain started without a checkpoint, the
\* terrain's Initialize is called only after settling is complete and
\* checkpoint_settled.dat holds the settled state, and while settling is in
\* progress or partial no rank has called Synchronize.
C8_SettledBeforeInitialize ==
    num_procs = 2 =>
        LET t == TERRAIN_NODE_RANK
            s == calls[t]
        IN  node[t].kind \in GranularKinds /\ ~loc[t].use_checkpoint =>
               /\ Places(s, "Initialize") /= {} =>
                     /\ node[t].settled = SettleSteps
                     /\ hist.settle_run = run
                     /\ disk[CHECKPOINT_SETTLED] = hist.settle_state
                     /\ \E j \in WritePlaces(s, CHECKPOINT_SETTLED) :
                           \A i \in Places(s, "Initialize") : j < i
               /\ pc[t] = "settle" \/ node[t].settled < SettleSteps =>
                     \A q \in Procs :
                        /\ Count(calls[q], "Synchronize") = 0
                        /\ ~InSynchronize(q)

\* a freshly settled granular terrain answers the rig in Synchronize
C8_Witness ==
    /\ num_procs = 2
    /\ node[TERRAIN_NODE_RANK].kind \in GranularKinds
    /\ ~loc[TERRAIN_NODE_RANK].use_checkpoint
    /\ pc[TERRAIN_NODE_RANK] = "sync_send_force"

\* C9: for a granular (OMP, GPU) terrain, without use_checkpoint Settle is
\* called once and is followed at once by the only write of
\* checkpoint_settled.dat, and no input checkpoint is set; with use_checkpoint
\* Settle is not called, checkpoint_settled.dat is not written and the node's
\* input is checkpoint_settled.dat.
C9_StartupPaths ==
    num_procs = 2 =>
        LET t == TERRAIN_NODE_RANK
            s == calls[t]
            w == WritePlaces(s, CHECKPOINT_SETTLED)
        IN  node[t].kind \in GranularKinds =>
               IF loc[t].use_checkpoint
                  THEN /\ Count(s, "Settle") = 0
                       /\ hist.settle_runs = 0
                       /\ node[t].settled = 0
                       /\ w = {}
                       /\ node[t].input = CHECKPOINT_SETTLED
                       /\ Count(s, "SetInputFromCheckpoint") = 1
                  ELSE /\ Count(s, "Settle") = 1
                       /\ hist.settle_runs = 1
                       /\ node[t].input = ""
                       /\ Count(s, "SetInputFromCheckpoint") = 0
                       /\ pc[t] = "settle" => w = {}
                       /\ pc[t] /= "settle" =>
                             /\ Cardinality(w) = 1
                             /\ \A i \in w : Op(s[i - 1]) = "Settle"

\* a granular terrain started from the settled checkpoint is in its step loop
C9_Witness ==
    /\ num_procs = 2
    /\ node[TERRAIN_NODE_RANK].kind \in GranularKinds
    /\ loc[TERRAIN_NODE_RANK].use_checkpoint
    /\ node[TERRAIN_NODE_RANK].initialized
    /\ pc[TERRAIN_NODE_RANK] = "step_wait"

BeforeStartup ==
    {"debug_barrier", "debug_wait", "check_procs", "parse", "check_modules",
     "mkdir_top", "mkdir_out", "startup_barrier", "startup_wait"}

\* rank r has constructed no node and has made no call on a node
NothingDone(r) ==
    /\ node[r] = NullNode
    /\ calls[r] = <<>>
    /\ hist.sync_done[r] = 0
    /\ hist.adv_started[r] = 0

\* C11: when rank 0 fails to create the top-level output directory or the
\* output directory of the run, rank 0 has called MPI_Abort, no rank
\* constructs a node, calls Initialize or executes a step, and the other rank
\* does not get past the start-up barrier (it waits there or is terminated).
C11_DirectoryFailure ==
    num_procs = 2 /\ hist.mkdir_failed =>
        /\ aborted
        /\ pc[0] = "aborted"
        /\ \A r \in Procs :
              /\ NothingDone(r)
              /\ pc[r] \in BeforeStartup \cup {"aborted", "killed"}
        /\ \A f \in CheckpointFiles : run = 1 => disk[f] = NoFile

\* rank 0 failed to create the directory of the run after it had created the
\* top-level directory, and the other rank waits at the start-up barrier
C11_Witness ==
    /\ num_procs = 2
    /\ hist.mkdir_failed
    /\ "out_dir_top" \in dirs
    /\ "out_dir" \notin dirs
    /\ pc[1] = "startup_wait"

\* the terrain type the command line selects
SelectedTerrain == TerrainTypeOf(args.terrain_type, InitLoc.terrain_type)

\* the backend of terrain type t is not part of the build
BackendUnavailable(t) ==
    \/ t = "RIGID" /\ ~build.MULTICORE
    \/ t = "GRANULAR_OMP" /\ ~build.MULTICORE
    \/ t = "GRANULAR_GPU" /\ ~build.GPU
    \/ t = "GRANULAR_SPH" /\ ~build.FSI

\* C12: when the backend of the selected terrain type is not part of the
\* build, no rank gets beyond the test of the modules: a rank that has made
\* the test has called MPI_Abort (or has been terminated), no directory is
\* created, no node is constructed and no call is made on a node.
C12_BackendUnavailable ==
    num_procs = 2 /\ args.read /\ args.valid /\ BackendUnavailable(SelectedTerrain) =>
        /\ dirs = {}
        /\ run = 1
        /\ \A r \in Procs :
              /\ NothingDone(r)
              /\ pc[r] \in {"debug_barrier", "debug_wait", "check_procs", "parse",
                            "check_modules", "aborted", "killed"}
              /\ r \in hist.parsed /\ pc[r] /= "check_modules"
                    => pc[r] \in {"aborted", "killed"}

\* both ranks have called MPI_Abort for a GPU terrain in a build without the
\* GPU module
C12_Witness ==
    /\ num_procs = 2
    /\ args.read
    /\ SelectedTerrain = "GRANULAR_GPU"
    /\ ~build.GPU
    /\ \A r \in Procs : pc[r] = "aborted" /\ r \in hist.parsed

\* C13: a rank that has returned from Synchronize can call Advance, and a
\* rank inside Advance can return from it, whatever the other rank is doing;
\* the call of Advance and the return from it enter no barrier and send or
\* receive no message.
C13_AdvanceIsLocal ==
    /\ [](\A r \in Procs :
            /\ pc[r] = "advance" => ENABLED CallAdvance(r)
            /\ pc[r] = "advancing" => ENABLED AdvanceReturn(r))
    /\ [][\A r \in Procs :
             CallAdvance(r) \/ AdvanceReturn(r) => UNCHANGED <<bar, chan>>]_vars

\* a rank has completed Advance of the first step and waits at the barrier of
\* the second while the other rank is still inside Advance of the first
C13_Witness ==
    /\ num_procs = 2
    /\ \E r, q \in Procs :
          /\ pc[r] = "step_wait" /\ loc[r].is = 1
          /\ pc[q] = "advancing" /\ loc[q].is = 0

\* the next statement of main() on rank r (the termination of the rank by the
\* launcher is not a statement of main())
RankStep(r) ==
    \/ DebugBarrierEnter(r) \/ DebugBarrierLeave(r) \/ CheckProcs(r)
    \/ GetProblemSpecs(r) \/ CheckModules(r) \/ CreateTopDir(r) \/ CreateOutDir(r)
    \/ StartupBarrierEnter(r) \/ StartupBarrierLeave(r)
    \/ CreateRigNode(r) \/ CreateTerrainNode(r)
    \/ SettleStep(r) \/ WriteSettledCheckpoint(r)
    \/ CallInitialize(r) \/ TerrainInitLoad(r) \/ TerrainInitSendHeight(r)
    \/ RigInitRecvHeight(r) \/ RigInitSend(r)
    \/ TerrainInitRecvMesh(r) \/ TerrainInitRecvMaterial(r)
    \/ LoopTest(r) \/ StepBarrierLeave(r)
    \/ RigSyncSendState(r) \/ TerrainSyncRecvState(r)
    \/ TerrainSyncSendForce(r) \/ RigSyncRecvForce(r)
    \/ CallAdvance(r) \/ AdvanceReturn(r)
    \/ WriteEndCheckpoint(r) \/ DeleteNode(r)

\* rank r has not ended and cannot go on until another rank does something
Waiting(r) == pc[r] \notin Terminal /\ ~ENABLED RankStep(r)

InInitialize(r) ==
    pc[r] \in {"init_load", "init_send_height", "init_recv_mesh",
              "init_recv_material", "init_recv_height", "init_send_mesh"}

\* C14 (as stated): a rank waits for the other rank only in the start-up
\* barrier, in the barrier of a step and inside Synchronize; in every other
\* position (node construction, settling, Initialize, Advance, OutputData,
\* WriteCheckpoint) it can go on by itself.
C14_ThreeWaitingPoints ==
    num_procs = 2 =>
        \A r \in Procs :
            Waiting(r) => pc[r] \in {"startup_wait", "step_wait"} \/ InSynchronize(r)

\* C14 (amended): a rank waits for the other rank only in the barrier of a
\* debug build, in the start-up barrier, inside Initialize, in the barrier of
\* a step and inside Synchronize; in every other position (node construction,
\* settling, Advance, OutputData, WriteCheckpoint) it can go on by itself.
C14_WaitingPoints ==
    num_procs = 2 =>
        \A r \in Procs :
            Waiting(r) =>
                \/ pc[r] \in {"debug_wait", "startup_wait", "step_wait"}
                \/ InInitialize(r)
                \/ InSynchronize(r)

\* the rig waits inside Initialize for the terrain height while the terrain
\* is settling
C14_Witness ==
    /\ num_procs = 2
    /\ pc[RIG_NODE_RANK] = "init_recv_height"
    /\ Waiting(RIG_NODE_RANK)
    /\ pc[TERRAIN_NODE_RANK] = "settle"
    /\ node[TERRAIN_NODE_RANK].settled = 1

\* Every rank is a process of its own and keeps executing main() as long as
\* its next statement does not block.
FairSpec ==
    Spec /\ \A r \in 0 .. (MaxProcs - 1) : WF_vars(r \in Procs /\ RankStep(r))

\* the start-up of the run has succeeded: two ranks, a rank has left the
\* start-up barrier (so rank 0 has created the directories and every rank
\* has passed the start-up tests), the selected terrain type has a backend in
\* this build, and the checkpoint the terrain is to start from, if any, exists
StartedUp ==
    /\ num_procs = 2
    /\ \E r \in Procs : pc[r] = "create_node"
    /\ TerrainKind(SelectedTerrain) /= NULL
    /\ LET f == InputCheckpoint(TerrainKind(SelectedTerrain), args.use_checkpoint)
       IN  f /= "" => disk[f] /= NoFile

\* rank r has gone through the whole run
Completed(r) ==
    /\ pc[r] = "exited"
    /\ node[r].initialized
    /\ node[r].released
    /\ Count(calls[r], "Initialize") = 1
    /\ Count(calls[r], "Synchronize") = StepsNeeded
    /\ Count(calls[r], "Advance") = StepsNeeded
    /\ loc[r].is = loc[r].sim_steps
    /\ Cardinality(WritePlaces(calls[r], CHECKPOINT_END)) = 1

StepsPerFrame ==
    CHOOSE m \in 1 .. TicksPerSecond :
        /\ m * output_fps * args.step_size >= TicksPerSecond
        /\ m = 1 \/ (m - 1) * output_fps * args.step_size < TicksPerSecond

\* the step of the Advance call at position i of s (the k-th Advance call is
\* the one of step k - 1)
StepOfAdvance(s, i) == Cardinality({j \in Places(s, "Advance") : j <= i}) - 1

\* rank r has left the start-up barrier and computed sim_steps and
\* output_steps
PastStartup(r) ==
    \/ pc[r] \notin BeforeStartup \cup {"parse_failed", "aborted", "killed", "crashed"}
    \/ calls[r] /= <<>>

\* C16: on a rank that has computed output_steps, output_steps is
\* ceil(1 / (output_fps * step_size)); every OutputData call follows at once
\* the Advance of a step whose index is a multiple of output_steps, and every
\* such Advance that has returned is followed by one when output is enabled;
\* the k-th OutputData call passes frame k - 1; after n steps the calls
\* number ceil(n / output_steps), so ceil(sim_steps / output_steps) when the
\* loop is left; with output disabled there is no OutputData call.
C16_OutputCadence ==
    \A r \in Procs :
        PastStartup(r) =>
            LET s == calls[r]
                o == Places(s, "OutputData")
                os == loc[r].output_steps
            IN  /\ os = StepsPerFrame
                /\ loc[r].output = ~args.no_output
                /\ args.no_output => o = {}
                /\ \A i \in o :
                      /\ i > 1
                      /\ Op(s[i - 1]) = "Advance"
                      /\ StepOfAdvance(s, i) % os = 0
                      /\ s[i][2] = Cardinality({j \in o : j < i})
                      /\ s[i][2] * os = StepOfAdvance(s, i)
                /\ ~args.no_output =>
                      \A j \in Places(s, "Advance") :
                         StepOfAdvance(s, j) % os = 0 /\ StepOfAdvance(s, j) < loc[r].is
                            => j < Len(s) /\ Op(s[j + 1]) = "OutputData"
                /\ ~args.no_output => Cardinality(o) = Ceil(loc[r].is, os)
                /\ ~args.no_output /\ LeftLoop(r)
                      => Cardinality(o) = Ceil(loc[r].sim_steps, os)

\* a run of three steps with an output frame every second step has left the
\* loop after the frames 0 and 1
C16_Witness ==
    \E r \in Procs :
        /\ LeftLoop(r)
        /\ loc[r].output
        /\ loc[r].output_steps = 2
        /\ loc[r].sim_steps = 3
        /\ Count(calls[r], "OutputData") = 2

NotOutputData(c) == Op(c) /= "OutputData"

\* the calls rank r has made on its node, the OutputData calls left out
CoreCalls(r) == SelectSeq(calls[r], NotOutputData)

IsPrefix(s, t) == Len(s) <= Len(t) /\ \A i \in 1 .. Len(s) : s[i] = t[i]

\* the calls of a whole run on the node of rank r, as the command line
\* without its output option and the build determine them
ExpectedCalls(r) ==
    LET k == IF r = RIG_NODE_RANK THEN RigKind ELSE TerrainKind(SelectedTerrain)
        l == [step_size |-> args.step_size, use_checkpoint |-> args.use_checkpoint]
        n == StepsNeeded
    IN  ConstructionCalls(k, l)
        \o (IF MustSettle(k, l.use_checkpoint)
               THEN <<<<"WriteCheckpoint", CHECKPOINT_SETTLED>>>> ELSE <<>>)
        \o <<<<"Initialize">>>>
        \o [i \in 1 .. 2 * n |->
              IF i % 2 = 1
                 THEN <<"Synchronize", (i - 1) \div 2, ((i - 1) \div 2) * l.step_size>>
                 ELSE <<"Advance", l.step_size>>]
        \o <<<<"WriteCheckpoint", CHECKPOINT_END>>, <<"delete">>>>

\* the steps whose payload is in the queue of rank r, in order
QueuedSteps(r, tag) ==
    LET m == SelectSeq(chan[r], LAMBDA x : x[1] = tag)
    IN  [i \in 1 .. Len(m) |-> m[i][2]]

\* C17: at every moment the calls made on a node other than OutputData, the
\* barriers entered, the payloads in flight and the state of the node are the
\* ones the command line without its output option determines: the calls are
\* a prefix of the same sequence, one barrier was entered per Synchronize
\* call (and one at start-up), the queued payloads are those of the steps
\* sent and not yet received, and the node state has advanced once per
\* Advance that returned.
C17_OutputHasNoEffect ==
    num_procs = 2 =>
        \A r \in Procs :
            PastStartup(r) /\ pc[r] /= "killed" =>
                LET c == CoreCalls(r)
                    syncs == Count(c, "Synchronize")
                    advs == Count(c, "Advance")
                IN  /\ IsPrefix(c, ExpectedCalls(r))
                    /\ bar[r] = (IF build.DEBUG THEN 1 ELSE 0) + 1 + syncs
                                   + (IF pc[r] = "step_wait" THEN 1 ELSE 0)
                    /\ loc[r].is = advs - (IF pc[r] = "advancing" THEN 1 ELSE 0)
                    /\ r = RIG_NODE_RANK =>
                          /\ node[r].state = loc[r].is
                          /\ QueuedSteps(TERRAIN_NODE_RANK, "state") =
                                [i \in 1 .. (syncs - hist.recv_state
                                     - (IF pc[r] = "sync_send_state" THEN 1 ELSE 0))
                                   |-> hist.recv_state + i - 1]
                    /\ r = TERRAIN_NODE_RANK =>
                          /\ node[r].initialized
                                => node[r].state = hist.loop_state + loc[r].is
                          /\ QueuedSteps(RIG_NODE_RANK, "force") =
                                [i \in 1 .. (hist.sync_done[r] - hist.recv_force)
                                   |-> hist.recv_force + i - 1]

\* both ranks have ended a run of three steps in which OutputData was called
\* twice on each node
C17_Witness ==
    /\ num_procs = 2
    /\ \A r \in Procs :
          /\ pc[r] = "exited"
          /\ Count(calls[r], "OutputData") = 2
          /\ Len(CoreCalls(r)) = Len(ExpectedCalls(r))
          /\ Count(calls[r], "Advance") = 3

\* C20: a checkpoint file changes only in a step in which the terrain rank
\* returns from a WriteCheckpoint call, and then holds the state of the
\* terrain node; the WriteCheckpoint call on the rig node changes no file and
\* no field of the rig node, raises no abort, and the rig rank goes on to
\* release its node.
C20_RigWritesNoCheckpoint ==
    [][num_procs = 2 =>
          LET t == TERRAIN_NODE_RANK
              g == RIG_NODE_RANK
          IN  /\ \A f \in CheckpointFiles :
                    disk'[f] /= disk[f] =>
                       /\ Len(calls'[t]) = Len(calls[t]) + 1
                       /\ calls'[t][Len(calls'[t])] = <<"WriteCheckpoint", f>>
                       /\ disk'[f] = node[t].state
                       /\ calls'[g] = calls[g]
              /\ WriteEndCheckpoint(g) =>
                    /\ IsRig(g)
                    /\ disk' = disk
                    /\ node'[g] = node[g]
                    /\ aborted' = aborted
                    /\ pc'[g] = "delete"
              /\ WritePlaces(calls[t], CHECKPOINT_END) = {} /\ run = 1
                    => disk[CHECKPOINT_END] = NoFile
    ]_vars

\* the rig has returned from WriteCheckpoint after two steps and
\* checkpoint_end.dat does not exist, the terrain not having written it yet
C20_Witness ==
    /\ num_procs = 2
    /\ run = 1
    /\ WritePlaces(calls[RIG_NODE_RANK], CHECKPOINT_END) /= {}
    /\ node[RIG_NODE_RANK].state = 2
    /\ disk[CHECKPOINT_END] = NoFile
    /\ pc[TERRAIN_NODE_RANK] = "write_checkpoint"

TerrainKinds ==
    {"TerrainNodeRigid", "TerrainNodeSCM", "TerrainNodeGranularOMP",
     "TerrainNodeGranularGPU", "TerrainNodeGranularSPH"}

\* the ranks that hold a node of one of the kinds in K
Holders(K) == {r \in Procs : node[r].kind \in K}

\* C21: a rank constructs at most one node, a rig node only on the rig rank
\* and a terrain node only on the terrain rank; once both ranks have returned
\* from Initialize there is exactly one rig node and one terrain node; and
\* within a run the kind of a constructed node and the terrain type selected
\* on its rank do not change.
C21_FixedRoles ==
    /\ [](\A r \in Procs :
            /\ Count(calls[r], "new") <= 1
            /\ node[r].kind /= NULL <=> Count(calls[r], "new") = 1
            /\ node[r].kind \in RigKinds \cup TerrainKinds \cup {NULL}
            /\ node[r].kind \in RigKinds => r = RIG_NODE_RANK /\ node[r].kind = RigKind
            /\ node[r].kind \in TerrainKinds
                  => /\ r = TERRAIN_NODE_RANK
                     /\ node[r].kind = TerrainKind(SelectedTerrain)
            /\ (\A q \in Procs : node[q].initialized)
                  => /\ Cardinality(Holders(RigKinds)) = 1
                     /\ Cardinality(Holders(TerrainKinds)) = 1)
    /\ [][run' = run =>
             \A r \in Procs :
                /\ node[r].kind /= NULL => node'[r].kind = node[r].kind
                /\ r \in hist.parsed => loc'[r].terrain_type = loc[r].terrain_type]_vars

\* a rigid-tire rig on rank 0 and an SCM terrain on rank 1 are in their second
\* step
C21_Witness ==
    /\ num_procs = 2
    /\ node[0].kind = "RigNodeRigidTire"
    /\ node[1].kind = "TerrainNodeSCM"
    /\ \A r \in Procs : node[r].initialized /\ loc[r].is = 1

\* C22: for every terrain type the command line can select (0 to 5) and
\* every build, a rank that is about to call node->Initialize() holds a
\* constructed node.
C22_NodeConstructedBeforeInitialize ==
    \A r \in Procs :
        pc[r] = "initialize" /\ args.terrain_type \in 0 .. 5 => node[r].kind /= NULL

\* the process of the terrain rank has ended in the call of Initialize through
\* a null pointer
C22_NullNodeCrash ==
    /\ num_procs = 2
    /\ SelectedTerrain = "GRANULAR_MPI"
    /\ pc[TERRAIN_NODE_RANK] = "crashed"
    /\ node[TERRAIN_NODE_RANK] = NullNode

\* rank 0 has created both output directories in this run
DirectoriesCreated ==
    /\ {"out_dir_top", "out_dir"} \subseteq dirs
    /\ ~hist.mkdir_failed
    /\ pc[0] \notin {"debug_barrier", "debug_wait", "check_procs", "parse",
                     "parse_failed", "check_modules", "mkdir_top", "mkdir_out"}

\* C23: a rank that has left the start-up barrier, has constructed a node or
\* has set the output directory of a node does so after rank 0 has created
\* both output directories in this run.
C23_DirectoriesBeforeNodes ==
    \A r \in Procs :
        \/ pc[r] \notin BeforeStartup \cup {"parse_failed", "aborted", "killed"}
        \/ node[r].kind /= NULL
        \/ node[r].out_dir
        \/ calls[r] /= <<>>
        => DirectoriesCreated /\ 0 \in hist.parsed

\* the terrain rank is settling its granular terrain while rank 0 has not yet
\* left the start-up barrier
C23_Witness ==
    /\ num_procs = 2
    /\ pc[0] = "startup_wait"
    /\ pc[1] = "settle"
    /\ node[1].out_dir
    /\ DirectoriesCreated

\* the number of step barriers rank q has arrived at in this run
StepBarriersEntered(q) == bar[q] - 1 - (IF build.DEBUG THEN 1 ELSE 0)

\* C24: a rank has begun Synchronize(n) only if the other rank has arrived at
\* the barrier of step n, whatever time has passed: as long as a rank has
\* arrived at only n step barriers (because it has stopped or is slow), the
\* other rank has begun at most the Synchronize calls of the
\* steps 0 .. n-1, has completed at most n steps, and does not reach the final
\* WriteCheckpoint unless n = sim_steps.
C24_StalledPeerStallsRun ==
    num_procs = 2 =>
        \A r, q \in Procs :
            PastStartup(r) =>
                /\ Count(calls[r], "Synchronize") <= StepBarriersEntered(q)
                /\ Count(calls[r], "Advance") <= StepBarriersEntered(q)
                /\ loc[r].is <= StepBarriersEntered(q)
                /\ LeftLoop(r) \/ WritePlaces(calls[r], CHECKPOINT_END) /= {}
                      => StepBarriersEntered(q) = StepsNeeded

\* a rank waits at the barrier of the last of three steps and cannot go on:
\* the other rank has returned from Synchronize of the second step and has
\* not arrived at that barrier
C24_Witness ==
    /\ num_procs = 2
    /\ \E r, q \in Procs :
          /\ pc[r] = "step_wait" /\ loc[r].is = 2 /\ Waiting(r)
          /\ pc[q] = "advance" /\ loc[q].is = 1
          /\ StepBarriersEntered(q) = 2
          /\ StepsNeeded = 3

BeforeLoop(r) ==
    Count(calls[r], "Synchronize") = 0 /\ Count(calls[r], "Advance") = 0

\* read at most once per run and only before the step loop; written at most
\* once per run
ReadOnceWriteOnce ==
    /\ [](num_procs = 2 =>
            /\ hist.ckpt_reads <= 1
            /\ \A f \in CheckpointFiles :
                  Cardinality(WritePlaces(calls[TERRAIN_NODE_RANK], f)) <= 1)
    /\ [][num_procs = 2 /\ run' = run /\ hist'.ckpt_reads /= hist.ckpt_reads =>
            /\ pc[TERRAIN_NODE_RANK] = "init_load"
            /\ BeforeLoop(TERRAIN_NODE_RANK)
            /\ hist'.ckpt_reads = hist.ckpt_reads + 1]_vars

\* C26 (as stated): within one run each checkpoint file is read at most once
\* and only before the step loop starts, is written at most once, and a file
\* that was read at startup is not written later in the same run.
C26_ReadFileStaysImmutable ==
    /\ ReadOnceWriteOnce
    /\ [](num_procs = 2 /\ hist.ckpt_reads > 0 =>
            WritePlaces(calls[TERRAIN_NODE_RANK], node[TERRAIN_NODE_RANK].input) = {})

\* C26 (amended): within one run each checkpoint file is read at most once
\* and only before the step loop starts, and is written at most once;
\* checkpoint_settled.dat is not written in a run that reads it, and is not
\* read in a run that has written it; checkpoint_end.dat, which an SCM terrain
\* reads at startup under use_checkpoint, is written again by the same run
\* when it ends, and then holds the final terrain state.
C26_CheckpointLifecycle ==
    /\ ReadOnceWriteOnce
    /\ [](num_procs = 2 =>
            LET t == TERRAIN_NODE_RANK
            IN  /\ hist.ckpt_reads > 0 =>
                      node[t].input \in CheckpointFiles
                /\ hist.ckpt_reads > 0 /\ node[t].input = CHECKPOINT_SETTLED =>
                      /\ node[t].kind \in GranularKinds
                      /\ WritePlaces(calls[t], CHECKPOINT_SETTLED) = {}
                /\ WritePlaces(calls[t], CHECKPOINT_SETTLED) /= {} =>
                      hist.ckpt_reads = 0
                /\ hist.ckpt_reads > 0 /\ node[t].input = CHECKPOINT_END =>
                      /\ node[t].kind = "TerrainNodeSCM"
                      /\ pc[t] \in {"delete", "exited"} =>
                            /\ WritePlaces(calls[t], CHECKPOINT_END) /= {}
                            /\ disk[CHECKPOINT_END] = node[t].state)
    /\ [][num_procs = 2 /\ disk'[CHECKPOINT_SETTLED] /= disk[CHECKPOINT_SETTLED] =>
            hist.ckpt_reads = 0 /\ BeforeLoop(TERRAIN_NODE_RANK)]_vars

\* an SCM terrain that started from checkpoint_end.dat has finished its run
\* and written checkpoint_end.dat
C26_Witness ==
    /\ num_procs = 2
    /\ node[TERRAIN_NODE_RANK].kind = "TerrainNodeSCM"
    /\ hist.ckpt_reads = 1
    /\ node[TERRAIN_NODE_RANK].input = CHECKPOINT_END
    /\ pc[TERRAIN_NODE_RANK] = "exited"
    /\ WritePlaces(calls[TERRAIN_NODE_RANK], CHECKPOINT_END) /= {}

\* rank r is inside an MPI_Barrier call
InBarrier(r) == pc[r] \in {"debug_wait", "startup_wait", "step_wait"}

\* both ranks compute the same sim_steps, and a rank inside a barrier of a
\* run in which nothing has failed has a peer that is still running and
\* either has entered that barrier too or has still to enter it
BarriersMatched ==
    num_procs = 2 =>
        \A r \in Procs :
            /\ PastStartup(r) => loc[r].sim_steps = StepsNeeded
            /\ InBarrier(r) /\ ~aborted =>
                  \A q \in Procs :
                      /\ bar[q] \in {bar[r] - 1, bar[r], bar[r] + 1}
                      /\ bar[q] < bar[r] =>
                            pc[q] \notin Terminal /\ ~LeftLoop(q)
                      /\ bar[q] < bar[r] /\ PastStartup(q) =>
                            loc[q].is < loc[q].sim_steps

\* C27 (as stated): both ranks compute the same sim_steps, a rank that has
\* left the step loop has executed exactly 1 + sim_steps barriers, and no
\* rank is in a barrier its peer will not reach.
C27_OnePlusSimStepsBarriers ==
    /\ BarriersMatched
    /\ num_procs = 2 =>
          \A r \in Procs : LeftLoop(r) => bar[r] = 1 + loc[r].sim_steps

\* C27 (amended): both ranks compute the same sim_steps; a rank that has left
\* the step loop has executed 1 + sim_steps barriers in a release build and
\* 2 + sim_steps in a _DEBUG build, whose main begins with one more barrier;
\* the two ranks execute the same number, and no rank is in a barrier its peer
\* will not reach.
C27_BarriersMatched ==
    /\ BarriersMatched
    /\ num_procs = 2 =>
          /\ \A r \in Procs :
                LeftLoop(r) =>
                   bar[r] = (IF build.DEBUG THEN 2 ELSE 1) + loc[r].sim_steps
          /\ \A r, q \in Procs : LeftLoop(r) /\ LeftLoop(q) => bar[r] = bar[q]

\* a _DEBUG build has completed a run of three steps: each rank has executed
\* five barriers
C27_Witness ==
    /\ num_procs = 2
    /\ build.DEBUG
    /\ \A r \in Procs : Completed(r) /\ loc[r].sim_steps = 3 /\ bar[r] = 5

\* the step sizes, in ticks, from a hundredth of an output frame up to three
\* hundred output frames
StepSizes == 1 .. (2 * TicksPerSecond)

\* OutputSteps is the ceiling of 1 / (output_fps * step_size) and is at least
\* 1 for every step size in StepSizes
OutputStepsIsCeiling ==
    \A h \in StepSizes :
        LET os == OutputSteps([InitLoc EXCEPT !.step_size = h])
        IN  /\ os >= 1
            /\ os * output_fps * h >= TicksPerSecond
            /\ (os - 1) * output_fps * h < TicksPerSecond

SelectorVariants ==
    <<"RIGID", "SCM", "GRANULAR_OMP", "GRANULAR_GPU", "GRANULAR_SPH">>

\* C29: on every rank that has parsed the command line, the selector values
\* 0 .. 4 give RIGID, SCM, GRANULAR_OMP, GRANULAR_GPU, GRANULAR_SPH, which
\* are five different variants; a command line the parser accepts never makes
\* GetProblemSpecs fail, whatever its selector; and with a selector outside
\* 0 .. 5 the rank goes on with RIGID: the terrain rank constructs no terrain
\* node other than a rigid one and the run can reach its step loop.
C29_SelectorMapping ==
    /\ \A i, j \in 1 .. 5 : i /= j => SelectorVariants[i] /= SelectorVariants[j]
    /\ args.read /\ args.valid => \A r \in Procs : pc[r] /= "parse_failed"
    /\ \A r \in hist.parsed :
          /\ args.read /\ args.valid
          /\ args.terrain_type \in 0 .. 4 =>
                loc[r].terrain_type = SelectorVariants[args.terrain_type + 1]
          /\ args.terrain_type \notin 0 .. 5 =>
                /\ loc[r].terrain_type = "RIGID"
                /\ loc[r].terrain_type = InitLoc.terrain_type
                /\ pc[r] /= "crashed"
                /\ r = TERRAIN_NODE_RANK => node[r].kind \in {NULL, "TerrainNodeRigid"}
                /\ r = TERRAIN_NODE_RANK /\ pc[r] \notin BeforeStartup \cup Terminal
                      /\ pc[r] /= "create_node"
                      => node[r].kind = "TerrainNodeRigid"

\* with --terrain_type=6 the terrain rank holds a rigid terrain node and has
\* completed a step
C29_Witness ==
    /\ num_procs = 2
    /\ args.read /\ args.terrain_type = 6
    /\ node[TERRAIN_NODE_RANK].kind = "TerrainNodeRigid"
    /\ loc[TERRAIN_NODE_RANK].is = 1
    /\ \A r \in Procs : pc[r] = "step_wait"

=============================================================================
